---- MODULE Spec2Model ----
(***************************************************************************)
(* A model of the deterministic skip list of src/SkipList.hpp              *)
(* (SkipList<unsigned, unsigned>).  The heap is a sequence of Node         *)
(* records; a Node* is an index into it and nullptr is 0.  Every public    *)
(* operation is one atomic action; the loops of search and insert are      *)
(* recursive operators that follow the code statement by statement.        *)
(***************************************************************************)
EXTENDS Integers, Sequences, FiniteSets

\* ------------------------------------------------------------------ bounds
\* Keys 0..MaxKey (together with MAGIC_VAL) are the keys of the free
\* exploration; the test scenario inserts 0..MaxAsc-1.
MaxKey == 1
MaxAsc == 16

\* ------------------------------------------------------- program constants
\* custom.cpp: the key whose coin flips are all heads.
MAGIC_VAL == 255
\* insert: the flat cap and the size below which it applies.
FlatCap == 13
FlatCapBelow == 16

\* nullptr
NULL == 0
\* The value of a member that Node() leaves uninitialised (height, key, val
\* of a sentinel).  Reading it is undefined behaviour.
Indet == -1

Keys == (0..MaxKey) \cup {MAGIC_VAL}
\* The list never inspects a value (it only copies it), so two values are
\* enough to tell the stored value from one offered later.
Vals == {5, 6}

VARIABLES
    nodes,        \* the heap: Seq of Node records, a Node* is an index
    top_l,        \* Node* top_l
    top_tail,     \* Node* top_tail
    bottom_l,     \* Node* bottom_l
    bottom_tail,  \* Node* bottom_tail
    sl_size,      \* size_t sl_size
    sl_layers,    \* unsigned sl_layers
    call,         \* the last call made on the list and what it produced
    okIns,        \* history: key -> value of every insert that returned true
    okCount,      \* history: number of insert calls that returned true
    heights,      \* the vector `heights` of the test cases in custom.cpp
    run           \* the member function in progress: its position and locals

grid == <<nodes, top_l, top_tail, bottom_l, bottom_tail, sl_size, sl_layers>>
vars == <<nodes, top_l, top_tail, bottom_l, bottom_tail, sl_size, sl_layers,
          call, okIns, okCount, heights, run>>

\* ------------------------------------------------------------------- Node
\* Node(): sentinel(true), the four links null, height/key/val not set.
SentinelNode ==
    [sentinel |-> TRUE, height |-> Indet, key |-> Indet, val |-> Indet,
     next |-> NULL, prev |-> NULL, up |-> NULL, down |-> NULL]

\* Node(k, v): sentinel(false), height(0), key(k), val(v), links null.
DataNode(k, v) ==
    [sentinel |-> FALSE, height |-> 0, key |-> k, val |-> v,
     next |-> NULL, prev |-> NULL, up |-> NULL, down |-> NULL]

\* ---------------------------------------------------------------- flipCoin
RECURSIVE BitXor(_, _)
\* operator ^ on non-negative integers
BitXor(a, b) ==
    IF a = 0 /\ b = 0 THEN 0
    ELSE (((a % 2) + (b % 2)) % 2) + 2 * BitXor(a \div 2, b \div 2)

\* a plausible slip: the bit index is taken one too high
flipCoinShifted(key, previousFlips) ==
    LET first8Bits == (key \div 16777216) % 256
        next8Bits  == (key \div 65536) % 256
        andThen    == (key \div 256) % 256
        lastBits   == key % 256
        c  == BitXor(BitXor(BitXor(first8Bits, next8Bits), andThen), lastBits)
        pf == (previousFlips + 1) % 8
    IN  (c \div (2 ^ pf)) % 2 # 0

\* flipCoin(unsigned key, unsigned previousFlips).  c is a char; c & (1 << pf)
\* is non-zero exactly when bit pf of the folded byte is set, whether char is
\* signed or not (sign extension only adds bits above bit 7, pf <= 7).
flipCoin(key, previousFlips) ==
    LET first8Bits == (key \div 16777216) % 256
        next8Bits  == (key \div 65536) % 256
        andThen    == (key \div 256) % 256
        lastBits   == key % 256
        c  == BitXor(BitXor(BitXor(first8Bits, next8Bits), andThen), lastBits)
        pf == previousFlips % 8
    IN  (c \div (2 ^ pf)) % 2 # 0

\* ------------------------------------------------------------------ search
RECURSIVE bottomMost(_, _)
\* bottomMost(n): follow down links to the last node of the column.
bottomMost(N, n) ==
    IF N[n].down # NULL THEN bottomMost(N, N[n].down) ELSE n

\* a plausible slip: the overshoot case returns the overshooting node itself
searchMissNoBackup(k, no_null) ==
    [found |-> FALSE, n |-> no_null]

\* search, after the loop: the position reported when the key was not found.
searchMiss(k, no_null) ==
    IF nodes[no_null].sentinel THEN [found |-> FALSE, n |-> no_null]
    ELSE IF nodes[no_null].key < k THEN [found |-> FALSE, n |-> no_null]
    ELSE [found |-> FALSE, n |-> nodes[no_null].prev]

\* a plausible slip: the overshoot case steps back without descending
searchStepNoDescent(k, temp, no_null) ==
    IF ~(temp # bottom_tail /\ temp # NULL)
    THEN [pc |-> "miss", r |-> searchMiss(k, no_null)]
    ELSE IF nodes[temp].sentinel THEN
        IF nodes[nodes[temp].next].sentinel
        THEN [pc |-> "loop", temp |-> nodes[temp].down, no_null |-> no_null]
        ELSE [pc |-> "loop", temp |-> nodes[temp].next, no_null |-> no_null]
    ELSE IF nodes[temp].key = k THEN
        [pc |-> "hit", r |-> [found |-> TRUE, n |-> bottomMost(nodes, temp)]]
    ELSE IF nodes[temp].key > k THEN
        [pc |-> "loop", temp |-> nodes[temp].prev, no_null |-> temp]
    ELSE IF nodes[nodes[temp].next].sentinel THEN
        IF temp = bottom_tail
        THEN [pc |-> "loop", temp |-> nodes[temp].next, no_null |-> temp]
        ELSE [pc |-> "loop", temp |-> nodes[temp].down, no_null |-> temp]
    ELSE [pc |-> "loop", temp |-> nodes[temp].next, no_null |-> temp]

\* search, lines 263-301: one test of the loop condition, followed by one
\* pass through the loop body ("loop"), the return inside it ("hit") or the
\* statements after the loop ("miss").
searchStep(k, temp, no_null) ==
    IF ~(temp # bottom_tail /\ temp # NULL)
    THEN [pc |-> "miss", r |-> searchMiss(k, no_null)]
    ELSE IF nodes[temp].sentinel THEN
        IF nodes[nodes[temp].next].sentinel
        THEN [pc |-> "loop", temp |-> nodes[temp].down, no_null |-> no_null]
        ELSE [pc |-> "loop", temp |-> nodes[temp].next, no_null |-> no_null]
    ELSE IF nodes[temp].key = k THEN
        [pc |-> "hit", r |-> [found |-> TRUE, n |-> bottomMost(nodes, temp)]]
    ELSE IF nodes[temp].key > k THEN
        [pc |-> "loop", temp |-> nodes[nodes[temp].prev].down, no_null |-> temp]
    ELSE IF nodes[nodes[temp].next].sentinel THEN
        IF temp = bottom_tail
        THEN [pc |-> "loop", temp |-> nodes[temp].next, no_null |-> temp]
        ELSE [pc |-> "loop", temp |-> nodes[temp].down, no_null |-> temp]
    ELSE [pc |-> "loop", temp |-> nodes[temp].next, no_null |-> temp]

\* One more pass of the loop from the locals in st, if it has not ended.
searchPass(k, st) ==
    IF st.pc = "loop" THEN searchStep(k, st.temp, st.no_null) ELSE st

RECURSIVE searchPasses(_, _, _)
\* n passes of the loop, the first half of them before the second half (the
\* passes are halved to keep the evaluation shallow on tall lists).
searchPasses(k, st, n) ==
    IF n = 1 THEN searchPass(k, st)
    ELSE CHOOSE r \in {IF m.pc = "loop"
                       THEN searchPasses(k, m, n - (n \div 2)) ELSE m :
                         m \in {searchPasses(k, st, n \div 2)}} : TRUE

RECURSIVE searchLoop(_, _, _)
\* search, lines 260-301: the loop run to its end from the locals temp and
\* no_null, 64 passes at a time.
searchLoop(k, temp, no_null) ==
    CHOOSE r \in {IF st.pc = "loop"
                  THEN searchLoop(k, st.temp, st.no_null) ELSE st.r :
                    st \in {searchPasses(k, [pc |-> "loop", temp |-> temp,
                                             no_null |-> no_null], 64)}} : TRUE

\* search(k, n): [found, n].
search(k) == searchLoop(k, top_l, top_l)

\* ------------------------------------------------------------- constructor
Init ==
    /\ nodes = << [SentinelNode EXCEPT !.down = 3, !.next = 2],
                  [SentinelNode EXCEPT !.prev = 1, !.down = 4, !.next = NULL],
                  [SentinelNode EXCEPT !.next = 4, !.up = 1],
                  [SentinelNode EXCEPT !.prev = 3, !.up = 2, !.next = NULL] >>
    /\ top_l = 1
    /\ top_tail = 2
    /\ bottom_l = 3
    /\ bottom_tail = 4
    /\ sl_size = 0
    /\ sl_layers = 2
    /\ call = [op |-> "SkipList", key |-> 0, arg |-> 0, out |-> "done", val |-> 0]
    /\ okIns = [x \in {} |-> 0]
    /\ okCount = 0
    /\ heights = << >>
    /\ run = [pc |-> "idle"]

\* ------------------------------------------------------------------ insert
RECURSIVE CeilLog2From(_, _)
\* the least e >= from with 2^e >= x: std::ceil(std::log2(x)) for x >= 1
CeilLog2From(x, from) ==
    IF 2 ^ from >= x THEN from ELSE CeilLog2From(x, from + 1)

\* a plausible slip: the flat cap is applied whatever the size
maxLayersFlat(n) == FlatCap

\* insert: `max`, from the size before the insertion.
maxLayers(n) ==
    IF n < FlatCapBelow THEN FlatCap ELSE 3 * CeilLog2From(n + 1, 0) + 1

\* a plausible slip: the duplicate check is dropped
insertPositionNoCheck(k) ==
    IF sl_size = 0 THEN [found |-> FALSE, n |-> bottom_l]
    ELSE [found |-> FALSE, n |-> search(k).n]

\* insert, lines 465-480: the position to insert after, and whether the key
\* is already there.  search is not called on an empty list.
insertPosition(k) ==
    IF sl_size = 0 THEN [found |-> FALSE, n |-> bottom_l] ELSE search(k)

\* insert, lines 481-492: the new bottom node is spliced after `position`.
\* s carries the members the loop changes and the locals of insert.
insertBottom(k, v, position) ==
    LET newNode == Len(nodes) + 1
        N0 == Append(nodes, DataNode(k, v))
        N1 == [N0 EXCEPT ![newNode].next = N0[position].next]
        N2 == [N1 EXCEPT ![newNode].prev = position]
        N3 == [N2 EXCEPT ![N2[position].next].prev = newNode]
        N4 == [N3 EXCEPT ![position].next = newNode]
        N5 == [N4 EXCEPT ![newNode].height = 1]
    IN  [nodes |-> N5, top_l |-> top_l, top_tail |-> top_tail,
         sl_layers |-> sl_layers, sl_size |-> sl_size,
         position |-> position, temp |-> newNode, newNode |-> newNode,
         currLayer |-> 0]

\* a plausible slip: the new layer is linked in but not counted
addLayerNotCounted(s) ==
    LET newTop  == Len(s.nodes) + 1
        newTail == Len(s.nodes) + 2
        N0 == Append(Append(s.nodes, SentinelNode), SentinelNode)
        N1 == [N0 EXCEPT ![newTop].next = newTail]
        N2 == [N1 EXCEPT ![newTail].prev = newTop]
        N3 == [N2 EXCEPT ![newTop].down = s.top_l]
        N4 == [N3 EXCEPT ![s.top_l].up = newTop]
        N5 == [N4 EXCEPT ![newTail].down = s.top_tail]
        N6 == [N5 EXCEPT ![s.top_tail].up = newTail]
    IN  [s EXCEPT !.nodes = N6, !.top_l = newTop, !.top_tail = newTail]

\* insert, lines 501-514: a new sentinel-only layer above the top.
addLayer(s) ==
    LET newTop  == Len(s.nodes) + 1
        newTail == Len(s.nodes) + 2
        N0 == Append(Append(s.nodes, SentinelNode), SentinelNode)
        N1 == [N0 EXCEPT ![newTop].next = newTail]
        N2 == [N1 EXCEPT ![newTail].prev = newTop]
        N3 == [N2 EXCEPT ![newTop].down = s.top_l]
        N4 == [N3 EXCEPT ![s.top_l].up = newTop]
        N5 == [N4 EXCEPT ![newTail].down = s.top_tail]
        N6 == [N5 EXCEPT ![s.top_tail].up = newTail]
    IN  [s EXCEPT !.nodes = N6, !.top_l = newTop, !.top_tail = newTail,
                  !.sl_layers = s.sl_layers + 1]

RECURSIVE walkLeft(_, _)
\* insert, lines 521-523: while (position->up == nullptr) position = prev.
walkLeft(N, position) ==
    IF N[position].up = NULL THEN walkLeft(N, N[position].prev) ELSE position

\* a plausible slip: the successor's prev link is not redirected to the new node
pushUpNoBackLink(s, k, v) ==
    LET temp0    == s.nodes[s.position].next
        position == s.nodes[walkLeft(s.nodes, s.position)].up
        newUp    == Len(s.nodes) + 1
        currLayer == s.currLayer + 1
        N0 == Append(s.nodes, DataNode(k, v))
        N1 == [N0 EXCEPT ![newUp].height = currLayer + 1]
        N2 == [N1 EXCEPT ![newUp].next = N1[position].next]
        N4 == [N2 EXCEPT ![newUp].prev = position]
        N5 == [N4 EXCEPT ![position].next = newUp]
        N6 == [N5 EXCEPT ![newUp].down = temp0]
        N7 == [N6 EXCEPT ![temp0].up = newUp]
        N8 == [N7 EXCEPT ![s.newNode].height = N7[newUp].height]
    IN  [s EXCEPT !.nodes = N8, !.position = position, !.temp = newUp,
                  !.currLayer = currLayer]

\* a plausible slip: every promoted node is linked down to the bottom node
pushUpDownToBottom(s, k, v) ==
    LET temp0    == s.nodes[s.position].next
        position == s.nodes[walkLeft(s.nodes, s.position)].up
        newUp    == Len(s.nodes) + 1
        currLayer == s.currLayer + 1
        N0 == Append(s.nodes, DataNode(k, v))
        N1 == [N0 EXCEPT ![newUp].height = currLayer + 1]
        N2 == [N1 EXCEPT ![newUp].next = N1[position].next]
        N3 == [N2 EXCEPT ![N2[position].next].prev = newUp]
        N4 == [N3 EXCEPT ![newUp].prev = position]
        N5 == [N4 EXCEPT ![position].next = newUp]
        N6 == [N5 EXCEPT ![newUp].down = s.newNode]
        N7 == [N6 EXCEPT ![temp0].up = newUp]
        N8 == [N7 EXCEPT ![s.newNode].height = N7[newUp].height]
    IN  [s EXCEPT !.nodes = N8, !.position = position, !.temp = newUp,
                  !.currLayer = currLayer]

\* a plausible slip: the height of the bottom node is not brought up to date
pushUpHeightNotCopied(s, k, v) ==
    LET temp0    == s.nodes[s.position].next
        position == s.nodes[walkLeft(s.nodes, s.position)].up
        newUp    == Len(s.nodes) + 1
        currLayer == s.currLayer + 1
        N0 == Append(s.nodes, DataNode(k, v))
        N1 == [N0 EXCEPT ![newUp].height = currLayer + 1]
        N2 == [N1 EXCEPT ![newUp].next = N1[position].next]
        N3 == [N2 EXCEPT ![N2[position].next].prev = newUp]
        N4 == [N3 EXCEPT ![newUp].prev = position]
        N5 == [N4 EXCEPT ![position].next = newUp]
        N6 == [N5 EXCEPT ![newUp].down = temp0]
        N7 == [N6 EXCEPT ![temp0].up = newUp]
    IN  [s EXCEPT !.nodes = N7, !.position = position, !.temp = newUp,
                  !.currLayer = currLayer]

\* insert, lines 517-539: one promotion, after the layer was grown if needed.
pushUp(s, k, v) ==
    LET temp0    == s.nodes[s.position].next
        position == s.nodes[walkLeft(s.nodes, s.position)].up
        newUp    == Len(s.nodes) + 1
        currLayer == s.currLayer + 1
        N0 == Append(s.nodes, DataNode(k, v))
        N1 == [N0 EXCEPT ![newUp].height = currLayer + 1]
        N2 == [N1 EXCEPT ![newUp].next = N1[position].next]
        N3 == [N2 EXCEPT ![N2[position].next].prev = newUp]
        N4 == [N3 EXCEPT ![newUp].prev = position]
        N5 == [N4 EXCEPT ![position].next = newUp]
        N6 == [N5 EXCEPT ![newUp].down = temp0]
        N7 == [N6 EXCEPT ![temp0].up = newUp]
        N8 == [N7 EXCEPT ![s.newNode].height = N7[newUp].height]
    IN  [s EXCEPT !.nodes = N8, !.position = position, !.temp = newUp,
                  !.currLayer = currLayer]

\* a plausible slip: the size is counted per node, inside the loop
promoteStepCountsNodes(s, k, v) ==
    LET g == IF s.currLayer + 1 >= s.sl_layers - 1 THEN addLayer(s) ELSE s
        u == pushUp(g, k, v)
    IN  [u EXCEPT !.sl_size = u.sl_size + 1]

\* a plausible slip: a layer is added only once the top layer itself is reached
promoteStepLateGrowth(s, k, v) ==
    pushUp(IF s.currLayer + 1 >= s.sl_layers THEN addLayer(s) ELSE s, k, v)

\* a plausible slip: a layer is added one promotion too early
promoteStepEarlyGrowth(s, k, v) ==
    pushUp(IF s.currLayer + 2 >= s.sl_layers - 1 THEN addLayer(s) ELSE s, k, v)

\* insert, lines 500-540: the body of the promotion loop.
promoteStep(s, k, v) ==
    pushUp(IF s.currLayer + 1 >= s.sl_layers - 1 THEN addLayer(s) ELSE s, k, v)

RECURSIVE promoteLoopInclusive(_, _, _, _)
\* a plausible slip: the cap is compared with <= instead of <
promoteLoopInclusive(s, k, v, max) ==
    IF flipCoin(k, s.currLayer) /\ s.sl_layers <= max
    THEN promoteLoopInclusive(promoteStep(s, k, v), k, v, max)
    ELSE s

RECURSIVE promoteLoopOwnHeight(_, _, _, _)
\* a plausible slip: the cap is compared with the height of the key itself
promoteLoopOwnHeight(s, k, v, max) ==
    IF flipCoin(k, s.currLayer) /\ s.currLayer + 2 < max
    THEN promoteLoopOwnHeight(promoteStep(s, k, v), k, v, max)
    ELSE s

RECURSIVE promoteLoop(_, _, _, _)
\* insert, line 499: while (flipCoin(k, currLayer) && sl_layers < max).
promoteLoop(s, k, v, max) ==
    IF flipCoin(k, s.currLayer) /\ s.sl_layers < max
    THEN promoteLoop(promoteStep(s, k, v), k, v, max)
    ELSE s

\* a plausible slip: a duplicate insert overwrites the stored value
insertOverwrite(k, v) ==
    LET p == insertPosition(k)
    IN  IF p.found
        THEN [ret |-> FALSE, nodes |-> [nodes EXCEPT ![p.n].val = v],
              top_l |-> top_l, top_tail |-> top_tail,
              sl_layers |-> sl_layers, sl_size |-> sl_size]
        ELSE LET s == promoteLoop(insertBottom(k, v, p.n), k, v,
                                  maxLayers(sl_size))
             IN  [ret |-> TRUE, nodes |-> s.nodes, top_l |-> s.top_l,
                  top_tail |-> s.top_tail, sl_layers |-> s.sl_layers,
                  sl_size |-> s.sl_size + 1]

\* insert(k, v): the return value and the members after the call.
insert(k, v) ==
    LET p == insertPosition(k)
    IN  IF p.found
        THEN [ret |-> FALSE, nodes |-> nodes, top_l |-> top_l,
              top_tail |-> top_tail, sl_layers |-> sl_layers,
              sl_size |-> sl_size]
        ELSE LET s == promoteLoop(insertBottom(k, v, p.n), k, v,
                                  maxLayers(sl_size))
             IN  [ret |-> TRUE, nodes |-> s.nodes, top_l |-> s.top_l,
                  top_tail |-> s.top_tail, sl_layers |-> s.sl_layers,
                  sl_size |-> s.sl_size + 1]

\* ----------------------------------------------------------------- queries
\* An outcome is [out, val]: out is "value" (val returned), "true"/"false",
\* "throw" (RuntimeException), or "undefined" when control flows off the end
\* of a value-returning function.
Throw == [out |-> "throw", val |-> 0]
Value(x) == [out |-> "value", val |-> x]
Undefined == [out |-> "undefined", val |-> 0]

\* What a build can make of a call whose behaviour is undefined: it returns
\* whatever is in the return register (an indeterminate key), it throws, or
\* it is killed.
UndefinedOutcomes ==
    {Value(Indet), Throw, [out |-> "crash", val |-> 0]}

size == sl_size

isEmpty == IF sl_size = 0 THEN TRUE ELSE FALSE

numLayers == sl_layers

\* a plausible slip: the result of search is not tested
heightUnchecked(k) == Value(nodes[search(k).n].height)

height(k) ==
    LET r == search(k)
    IN  IF r.found THEN Value(nodes[r.n].height) ELSE Throw

\* a plausible slip: the neighbour is not tested for being the tail sentinel
nextKeyNoSentinelTest(k) ==
    LET r == search(k)
    IN  IF r.found
        THEN IF nodes[r.n].next # NULL
             THEN Value(nodes[nodes[r.n].next].key)
             ELSE Throw
        ELSE Undefined

\* nextKey: when search fails no statement follows the if, and the function
\* ends without a return or a throw.
nextKey(k) ==
    LET r == search(k)
    IN  IF r.found
        THEN IF nodes[r.n].next # NULL /\ nodes[nodes[r.n].next].sentinel # TRUE
             THEN Value(nodes[nodes[r.n].next].key)
             ELSE Throw
        ELSE Undefined

previousKey(k) ==
    LET r == search(k)
    IN  IF r.found
        THEN IF nodes[r.n].prev # NULL /\ nodes[nodes[r.n].prev].sentinel # TRUE
             THEN Value(nodes[nodes[r.n].prev].key)
             ELSE Throw
        ELSE Throw

\* const Value & find(Key k) const
findConst(k) ==
    LET r == search(k)
    IN  IF r.found THEN Value(nodes[r.n].val) ELSE Throw

\* Value & find(const Key & k)
find(k) ==
    LET r == search(k)
    IN  IF r.found THEN Value(nodes[r.n].val) ELSE Throw

RECURSIVE keysFrom(_)
\* allKeysInOrder, the loop: while (temp != bottom_tail) push_back, next.
keysFrom(temp) ==
    IF temp # bottom_tail
    THEN <<nodes[temp].key>> \o keysFrom(nodes[temp].next)
    ELSE << >>

allKeysInOrder == keysFrom(nodes[bottom_l].next)

\* A bool returned by a member function.
Bool(b) == [out |-> IF b THEN "true" ELSE "false", val |-> 0]

\* What a build can make of a comparison with an indeterminate key.
IndeterminateCompare == {Bool(TRUE), Bool(FALSE)}

\* isSmallestKey: k == bottom_l->next->key, whatever node bottom_l->next is.
\* On an empty list that node is bottom_tail, whose key was never set.
isSmallestKey(k) ==
    LET first == nodes[nodes[bottom_l].next].key
    IN  IF first = Indet THEN Undefined
        ELSE IF k = first THEN Bool(TRUE) ELSE Bool(FALSE)

\* isLargestKey: k == bottom_tail->prev->key; on an empty list bottom_l's key.
isLargestKey(k) ==
    LET last == nodes[nodes[bottom_tail].prev].key
    IN  IF last = Indet THEN Undefined
        ELSE IF k = last THEN Bool(TRUE) ELSE Bool(FALSE)

\* ----------------------------------------------------------------- actions
Called(op, k, v, o) ==
    [op |-> op, key |-> k, arg |-> v, out |-> o.out, val |-> o.val]

\* A call of insert(k, v), with the history of its return value.
InsertCall(k, v) ==
    LET r == insert(k, v)
    IN  /\ nodes' = r.nodes
        /\ top_l' = r.top_l
        /\ top_tail' = r.top_tail
        /\ sl_layers' = r.sl_layers
        /\ sl_size' = r.sl_size
        /\ UNCHANGED <<bottom_l, bottom_tail>>
        /\ call' = Called("insert", k, v,
                     [out |-> IF r.ret THEN "true" ELSE "false", val |-> 0])
        /\ okIns' = IF r.ret
                    THEN [x \in DOMAIN okIns \cup {k} |->
                            IF x \in DOMAIN okIns THEN okIns[x] ELSE v]
                    ELSE okIns
        /\ okCount' = IF r.ret THEN okCount + 1 ELSE okCount
        /\ UNCHANGED run

Insert(k, v) == InsertCall(k, v) /\ UNCHANGED heights

\* A call of a const member function: nothing of the list is written.
Query(op, k, o) ==
    /\ call' = Called(op, k, 0, o)
    /\ UNCHANGED <<grid, okIns, okCount, heights, run>>

Height(k) == Query("height", k, height(k))

NextKey(k) ==
    IF nextKey(k).out = "undefined"
    THEN \E o \in UndefinedOutcomes : Query("nextKey", k, o)
    ELSE Query("nextKey", k, nextKey(k))

PreviousKey(k) == Query("previousKey", k, previousKey(k))

Find(k) == Query("find", k, find(k))

FindConst(k) == Query("findConst", k, findConst(k))

IsSmallestKey(k) ==
    IF isSmallestKey(k).out = "undefined"
    THEN \E o \in IndeterminateCompare : Query("isSmallestKey", k, o)
    ELSE Query("isSmallestKey", k, isSmallestKey(k))

IsLargestKey(k) ==
    IF isLargestKey(k).out = "undefined"
    THEN \E o \in IndeterminateCompare : Query("isLargestKey", k, o)
    ELSE Query("isLargestKey", k, isLargestKey(k))

Next ==
    \E k \in Keys :
        \/ \E v \in Vals : Insert(k, v)
        \/ Height(k)
        \/ NextKey(k)
        \/ PreviousKey(k)
        \/ Find(k)
        \/ FindConst(k)
        \/ IsSmallestKey(k)
        \/ IsLargestKey(k)

Spec == Init /\ [][Next]_vars

\* ------------------------------------------------- the tests of custom.cpp
\* The keys the tests insert.
TestKeys == (0..(MaxAsc - 1)) \cup {MAGIC_VAL}

\* The keys 0, 1, 2, ... inserted so far by the test loop.
AscInserted == Cardinality(DOMAIN okIns \ {MAGIC_VAL})

\* The loop body of the height tests: sl.insert(i, i);
\* heights.push_back(sl.height(i)), for the next i.
TestInsertNext ==
    \E i \in {AscInserted} :
        /\ i < MaxAsc
        /\ InsertCall(i, i)
        /\ heights' = Append(heights, height(i)'.val)

\* sl.insert(MAGIC_VAL, MAGIC_VAL); heights.push_back(sl.height(MAGIC_VAL)).
\* The tests do it after 10 and after 16 keys; here after any number.
TestInsertMagic ==
    /\ MAGIC_VAL \notin DOMAIN okIns
    /\ InsertCall(MAGIC_VAL, MAGIC_VAL)
    /\ heights' = Append(heights, height(MAGIC_VAL)'.val)

NextTests == TestInsertNext \/ TestInsertMagic

SpecTests == Init /\ [][NextTests]_vars

\* ------------------------------------------------ inserts in any order
\* Keys of heights 1, 2, 3 and 4 and the key that never flips tails, inserted
\* in every order, so that nodes are spliced into the middle of upper layers.
SpliceKeys == {0, 1, 3, 7, MAGIC_VAL}

NextSplice == \E k \in SpliceKeys : \E v \in {5} : Insert(k, v)

SpecSplice == Init /\ [][NextSplice]_vars

\* ------------------------------------------- statement by statement
\* insert and the destructor taken one loop iteration at a time; run holds
\* the position in the function and its locals.
StepKeys == {1, 3, MAGIC_VAL}

Idle == [pc |-> "idle"]

\* insert, lines 465-469: the call starts; an empty list skips the search.
StartInsert(k, v) ==
    /\ run.pc = "idle"
    /\ run' = IF sl_size = 0
              THEN [pc |-> "splice", k |-> k, v |-> v, position |-> bottom_l]
              ELSE [pc |-> "search", k |-> k, v |-> v, temp |-> top_l,
                    no_null |-> top_l]
    /\ UNCHANGED <<grid, call, okIns, okCount, heights>>

\* insert, line 470: search(k, position), one loop iteration at a time.
SearchStep ==
    /\ run.pc = "search"
    /\ LET st == searchStep(run.k, run.temp, run.no_null)
       IN  IF st.pc = "loop"
           THEN /\ run' = [run EXCEPT !.temp = st.temp, !.no_null = st.no_null]
                /\ UNCHANGED <<grid, call, okIns, okCount, heights>>
           ELSE IF st.pc = "miss"
           THEN /\ run' = [pc |-> "splice", k |-> run.k, v |-> run.v,
                           position |-> st.r.n]
                /\ UNCHANGED <<grid, call, okIns, okCount, heights>>
           ELSE /\ run' = Idle
                /\ call' = Called("insert", run.k, run.v,
                                  [out |-> "false", val |-> 0])
                /\ UNCHANGED <<grid, okIns, okCount, heights>>

\* insert, lines 481-498: the bottom splice, currLayer = 0 and max.
Splice ==
    /\ run.pc = "splice"
    /\ LET s == insertBottom(run.k, run.v, run.position)
       IN  /\ nodes' = s.nodes
           /\ run' = [pc |-> "promote", k |-> run.k, v |-> run.v,
                      position |-> s.position, temp |-> s.temp,
                      newNode |-> s.newNode, currLayer |-> s.currLayer,
                      max |-> maxLayers(sl_size)]
    /\ UNCHANGED <<top_l, top_tail, bottom_l, bottom_tail, sl_size, sl_layers,
                   call, okIns, okCount, heights>>

\* insert, line 499: the condition of the promotion loop.
promoteGuard(k, currLayer, max) == flipCoin(k, currLayer) /\ sl_layers < max

\* insert, lines 499-545: one test of the loop condition, followed by the loop
\* body or by sl_size++ and return true.
PromoteIter ==
    /\ run.pc = "promote"
    /\ IF promoteGuard(run.k, run.currLayer, run.max)
       THEN LET s == promoteStep(
                       [nodes |-> nodes, top_l |-> top_l, top_tail |-> top_tail,
                        sl_layers |-> sl_layers, sl_size |-> sl_size,
                        position |-> run.position, temp |-> run.temp,
                        newNode |-> run.newNode, currLayer |-> run.currLayer],
                       run.k, run.v)
            IN  /\ nodes' = s.nodes
                /\ top_l' = s.top_l
                /\ top_tail' = s.top_tail
                /\ sl_layers' = s.sl_layers
                /\ sl_size' = s.sl_size
                /\ run' = [run EXCEPT !.position = s.position, !.temp = s.temp,
                                      !.currLayer = s.currLayer]
                /\ UNCHANGED <<bottom_l, bottom_tail, call, okIns, okCount,
                               heights>>
       ELSE /\ sl_size' = sl_size + 1
            /\ run' = Idle
            /\ call' = Called("insert", run.k, run.v,
                              [out |-> "true", val |-> 0])
            /\ okIns' = [x \in DOMAIN okIns \cup {run.k} |->
                           IF x \in DOMAIN okIns THEN okIns[x] ELSE run.v]
            /\ okCount' = okCount + 1
            /\ UNCHANGED <<nodes, top_l, top_tail, bottom_l, bottom_tail,
                           sl_layers, heights>>

\* ~SkipList.  d holds the locals column, row, col and tail, how often each
\* node was deleted (freed) and whether a deleted node was read (uaf).
Read(d, n) == [d EXCEPT !.uaf = d.uaf \/ d.freed[n] > 0]

Delete(d, n) == [d EXCEPT !.freed[n] = d.freed[n] + 1]

\* ~SkipList, lines 333-335: the destructor starts.
StartDestroy ==
    /\ run.pc = "idle"
    /\ run' = [pc |-> "columns", column |-> top_l, row |-> NULL,
               col |-> NULL, tail |-> NULL,
               freed |-> [n \in DOMAIN nodes |-> 0], uaf |-> FALSE]
    /\ UNCHANGED <<grid, call, okIns, okCount, heights>>

\* ~SkipList, lines 339-343 and 352-354: one test of the outer loop condition
\* and the choice of the branch; after the loop, col and tail are set.
destroyColumns(d) ==
    IF d.column = NULL
    THEN [d EXCEPT !.pc = "pairs", !.col = top_l, !.tail = top_tail]
    ELSE LET d1 == Read(Read(d, d.column), nodes[d.column].next)
         IN  IF nodes[nodes[d.column].next].sentinel
             THEN [d1 EXCEPT !.column = nodes[d.column].down]
             ELSE [d1 EXCEPT !.pc = "row", !.row = nodes[d.column].next]

\* a plausible slip: the node is deleted before its next link is read
destroyRowDeleteFirst(d) ==
    LET d1 == Read(d, d.row)
    IN  IF ~nodes[d.row].sentinel
        THEN LET d2 == Read(Delete(d1, d.row), d.row)
             IN  [d2 EXCEPT !.row = nodes[d.row].next]
        ELSE LET d2 == Read(d1, d.column)
             IN  [d2 EXCEPT !.pc = "columns", !.column = nodes[d.column].down]

\* ~SkipList, lines 345-350: one test of the inner loop condition, followed by
\* the loop body or by column = column->down.
destroyRow(d) ==
    LET d1 == Read(d, d.row)
    IN  IF ~nodes[d.row].sentinel
        THEN LET d2 == Delete(Read(d1, d.row), d.row)
             IN  [d2 EXCEPT !.row = nodes[d.row].next]
        ELSE LET d2 == Read(d1, d.column)
             IN  [d2 EXCEPT !.pc = "columns", !.column = nodes[d.column].down]

\* ~SkipList, lines 356-365: one test of the last loop's condition, followed
\* by its body, which deletes the head and the tail of one layer.
destroyPairs(d) ==
    IF d.col = NULL
    THEN [d EXCEPT !.pc = "destroyed"]
    ELSE LET d1 == Read(Read(d, d.col), d.tail)
             d2 == Delete(Delete(d1, d.col), d.tail)
         IN  [d2 EXCEPT !.col = nodes[d.col].down, !.tail = nodes[d.tail].down]

\* A step of the destructor.  Reading a deleted node is undefined: the run
\* goes on with the stale value or is stopped.
Destroyed(d) ==
    /\ run' \in (IF d.uaf THEN {d, [d EXCEPT !.pc = "crashed"]} ELSE {d})
    /\ UNCHANGED <<grid, call, okIns, okCount, heights>>

DestroyColumns == run.pc = "columns" /\ Destroyed(destroyColumns(run))

DestroyRow == run.pc = "row" /\ Destroyed(destroyRow(run))

DestroyPairs == run.pc = "pairs" /\ Destroyed(destroyPairs(run))

Running ==
    \/ SearchStep
    \/ Splice
    \/ PromoteIter
    \/ DestroyColumns
    \/ DestroyRow
    \/ DestroyPairs

NextSteps ==
    \/ \E k \in StepKeys : \E v \in {5} : StartInsert(k, v)
    \/ StartDestroy
    \/ Running

\* A member function that was called runs to its end: the program is
\* sequential and nothing else is scheduled.
SpecSteps == Init /\ [][NextSteps]_vars /\ WF_vars(Running)

\* ===================================================================
\* Properties
\* ===================================================================
Range(q) == {q[i] : i \in DOMAIN q}

StrictlyIncreasing(q) == \A i \in 1..(Len(q) - 1) : q[i] < q[i + 1]

\* The keys on the bottom layer.
Present == Range(allKeysInOrder)

\* cap(n) as the specification states it, n being the size before the insert.
CeilLog2(x) == CHOOSE e \in 0..32 : 2 ^ e >= x /\ (e = 0 \/ 2 ^ (e - 1) < x)

Cap(n) == IF n < 16 THEN 13 ELSE 3 * CeilLog2(n + 1) + 1

RECURSIVE Heads(_, _)
\* The number of consecutive heads of key k from flip i on, within one period
\* of eight flips (8: the key has no tails at all).
Heads(k, i) == IF i < 8 /\ flipCoin(k, i) THEN 1 + Heads(k, i + 1) ELSE 0

RECURSIVE DownLength(_)
\* The number of nodes on the down chain that starts at n.
DownLength(n) == IF n = NULL THEN 0 ELSE 1 + DownLength(nodes[n].down)

\* C1: after any sequence of inserts, allKeysInOrder() is strictly increasing
\* and its elements are exactly the keys for which insert returned true.
C1_SortedExactKeys ==
    /\ StrictlyIncreasing(allKeysInOrder)
    /\ Range(allKeysInOrder) = DOMAIN okIns
    /\ Len(allKeysInOrder) = Cardinality(DOMAIN okIns)

\* Three keys are in the list and the one inserted last is the smallest.
C1_Witness ==
    /\ Len(allKeysInOrder) = 3
    /\ okCount = 3
    /\ call.op = "insert" /\ call.out = "true"
    /\ call.key = allKeysInOrder[1]

\* C2: once insert(k, v) returned true, find(k) returns v in every later
\* state; an insert of a key that was inserted before returns false and
\* find of that key still returns the first value.
C2_FindReturnsFirstValue ==
    /\ [](\A k \in DOMAIN okIns :
            find(k) = Value(okIns[k]) /\ findConst(k) = Value(okIns[k]))
    /\ [][\A k \in DOMAIN okIns :
            (call'.op = "insert" /\ call'.key = k)
              => call'.out = "false" /\ find(k)' = Value(okIns[k])]_vars

\* insert(k, v2) was refused for a key stored with another value, and find
\* still gives the first one.
C2_Witness ==
    /\ call.op = "insert" /\ call.out = "false"
    /\ call.key \in DOMAIN okIns
    /\ call.arg # okIns[call.key]
    /\ find(call.key) = Value(okIns[call.key])
    /\ okCount >= 2

\* C3: insert of a key the list already contains returns false and changes
\* no node, no link, no value or height, and neither size() nor numLayers().
C3_DuplicateInsertNoChange ==
    [][(call'.op = "insert" /\ call'.key \in Present)
         => /\ call'.out = "false"
            /\ UNCHANGED grid]_vars

\* A duplicate insert was refused on a list with promoted keys.
C3_Witness ==
    /\ call.op = "insert" /\ call.out = "false"
    /\ call.key \in Present
    /\ sl_size >= 2
    /\ sl_layers > 2

\* C4: size() is the number of inserts that returned true and the number of
\* non-sentinel nodes of the bottom layer; isEmpty() iff size() = 0.
C4_SizeCountsInserts ==
    /\ size = okCount
    /\ size = Len(allKeysInOrder)
    /\ isEmpty <=> (size = 0)

\* Three keys, one of them promoted, are in the list.
C4_Witness ==
    /\ size = 3
    /\ ~isEmpty
    /\ Len(nodes) > 4 + 3

\* C5: numLayers() is at least 2, equals the number of head sentinels on the
\* down chain from the top head to the bottom head, is 2 while no key was
\* inserted, and never decreases.
C5_LayerCount ==
    /\ [](/\ numLayers >= 2
          /\ numLayers = DownLength(top_l)
          /\ bottomMost(nodes, top_l) = bottom_l
          /\ (okCount = 0 => numLayers = 2))
    /\ [][numLayers' >= numLayers]_vars

\* Layers were added by a promoted key.
C5_Witness ==
    /\ numLayers = FlatCap
    /\ DownLength(top_l) = FlatCap
    /\ sl_size = 2

\* C6: the first 16 heights read by the test loop on a fresh list.
ExpectedHeights == <<1, 2, 1, 3, 1, 2, 1, 4, 1, 2, 1, 3, 1, 2, 1, 5>>

\* C6: inserting 0, 1, 2, ... into a fresh list gives the heights
\* 1,2,1,3,1,2,1,4,1,2 and then 1,3,1,2,1,5; and whenever the cap does not
\* bind, the height of a new key that has a first tails is 1 + its number of
\* leading heads.
C6_Heights ==
    /\ [](MAGIC_VAL \notin DOMAIN okIns =>
            \A i \in 1..Len(heights) :
                i <= Len(ExpectedHeights) => heights[i] = ExpectedHeights[i])
    /\ [][\A k \in TestKeys :
            (/\ call'.op = "insert" /\ call'.key = k /\ call'.out = "true"
             /\ Heads(k, 0) < 8
             /\ \/ Heads(k, 0) = 0
                \/ /\ numLayers < Cap(size)
                   /\ 1 + Heads(k, 0) <= Cap(size) - 1)
              => height(k)' = Value(1 + Heads(k, 0))]_vars

\* The keys 0..15 were inserted in order and their heights read.
C6_Witness ==
    /\ heights = ExpectedHeights
    /\ sl_size = 16
    /\ height(15) = Value(5)

\* C7: inserting the all-heads key 255 into a list of size n with
\* numLayers() < cap(n) gives height(255) = cap(n) - 1 and numLayers() =
\* cap(n): 12 and 13 after the keys 0..9, 15 and 16 after the keys 0..15.
C7_MagicHeight ==
    /\ [][(/\ call'.op = "insert" /\ call'.key = MAGIC_VAL
           /\ call'.out = "true"
           /\ numLayers < Cap(size))
            => /\ height(MAGIC_VAL)' = Value(Cap(size) - 1)
               /\ numLayers' = Cap(size)]_vars
    /\ []((call.op = "insert" /\ call.key = MAGIC_VAL /\ size = 11)
            => height(MAGIC_VAL) = Value(12) /\ numLayers = 13)
    /\ []((call.op = "insert" /\ call.key = MAGIC_VAL /\ size = 17)
            => height(MAGIC_VAL) = Value(15) /\ numLayers = 16)

\* 255 was inserted right after the keys 0..15.
C7_Witness ==
    /\ call.op = "insert" /\ call.key = MAGIC_VAL /\ call.out = "true"
    /\ size = 17
    /\ heights[17] = 15
    /\ numLayers = 16

\* C8: for a present key, nextKey returns the smallest larger present key and
\* throws for the largest key; previousKey returns the largest smaller
\* present key and throws for the smallest key.
C8_Neighbours ==
    \A k \in Present :
        LET larger  == {x \in Present : x > k}
            smaller == {x \in Present : x < k}
        IN  /\ nextKey(k) =
                  IF larger = {} THEN Throw
                  ELSE Value(CHOOSE x \in larger : \A y \in larger : x <= y)
            /\ previousKey(k) =
                  IF smaller = {} THEN Throw
                  ELSE Value(CHOOSE x \in smaller : \A y \in smaller : x >= y)

\* nextKey of the middle one of three keys returned the largest, and the
\* smallest key has no previous key.
C8_Witness ==
    /\ sl_size = 3
    /\ call.op = "nextKey" /\ call.key = allKeysInOrder[2]
    /\ call.out = "value" /\ call.val = allKeysInOrder[3]
    /\ previousKey(allKeysInOrder[1]) = Throw
    /\ nextKey(allKeysInOrder[3]) = Throw

\* C9: nextKey(k) and previousKey(k) of a key that is not in the list both
\* raise an error.
C9_AbsentNeighbourThrows ==
    (call.op \in {"nextKey", "previousKey"} /\ call.key \notin Present)
        => call.out = "throw"

\* C10: height(k) and both overloads of find(k) raise an error for a key that
\* is not in the list, and leave the structure unchanged.
C10_AbsentKeyThrows ==
    /\ [](\A k \in Keys \ Present :
            height(k) = Throw /\ find(k) = Throw /\ findConst(k) = Throw)
    /\ []((call.op \in {"height", "find", "findConst"}
            /\ call.key \notin Present) => call.out = "throw")
    /\ [][call'.op \in {"height", "find", "findConst"}
            => UNCHANGED grid]_vars

\* height of a key lying between two present keys threw.
C10_Witness ==
    /\ call.op = "height" /\ call.out = "throw"
    /\ sl_size = 2
    /\ call.key > allKeysInOrder[1] /\ call.key < allKeysInOrder[2]

\* C11: isSmallestKey(k) returns true exactly when k is present and is the
\* minimum key, isLargestKey(k) exactly when k is present and is the maximum
\* key, on every list, the empty one included; for an absent key both return
\* false.
C11_SmallestLargest ==
    /\ (call.op = "isSmallestKey") =>
         /\ call.out \in {"true", "false"}
         /\ (call.out = "true") <=>
              (call.key \in Present /\ \A x \in Present : call.key <= x)
    /\ (call.op = "isLargestKey") =>
         /\ call.out \in {"true", "false"}
         /\ (call.out = "true") <=>
              (call.key \in Present /\ \A x \in Present : call.key >= x)

\* The height member of every key node of the heap.
NodeHeights == {nodes[i].height : i \in {j \in DOMAIN nodes : ~nodes[j].sentinel}}

\* C12: insert promotes, and adds a layer, only while numLayers() is below
\* cap(n), n the size before the insert.  So with size() <= 16 numLayers() is
\* at most 13 and every height at most 12, and with size() >= 17 numLayers()
\* is at most 3*ceil(log2(size()))+1 and every height at most
\* 3*ceil(log2(size())).
C12_HeightCap ==
    /\ [][\A k \in TestKeys :
            (/\ call'.op = "insert" /\ call'.key = k /\ call'.out = "true"
             /\ (numLayers' > numLayers \/ height(k)' # Value(1)))
              => numLayers < Cap(size) /\ numLayers' <= Cap(size)]_vars
    /\ [](size <= 16 =>
            /\ numLayers <= 13
            /\ \A h \in NodeHeights : h <= 12
            /\ \A k \in Present : height(k).val <= 12)
    /\ [](size >= 17 =>
            /\ numLayers <= 3 * CeilLog2(size) + 1
            /\ \A h \in NodeHeights : h <= 3 * CeilLog2(size)
            /\ \A k \in Present : height(k).val <= 3 * CeilLog2(size))

\* Seventeen keys are in the list and the layer count sits exactly at the cap.
C12_Witness ==
    /\ size = 17
    /\ numLayers = 3 * CeilLog2(size) + 1
    /\ 3 * CeilLog2(size) \in NodeHeights

RECURSIVE DownChain(_, _)
\* The nodes met from n by down links, n first (at most fuel of them).
DownChain(n, fuel) ==
    IF n = NULL \/ fuel = 0 THEN <<>>
    ELSE <<n>> \o DownChain(nodes[n].down, fuel - 1)

RECURSIVE NextChain(_, _)
\* The nodes met from n by next links, n first (at most fuel of them).
NextChain(n, fuel) ==
    IF n = NULL \/ fuel = 0 THEN <<>>
    ELSE <<n>> \o NextChain(nodes[n].next, fuel - 1)

RECURSIVE PrevChain(_, _)
\* The nodes met from n by prev links, n first (at most fuel of them).
PrevChain(n, fuel) ==
    IF n = NULL \/ fuel = 0 THEN <<>>
    ELSE <<n>> \o PrevChain(nodes[n].prev, fuel - 1)

Reverse(q) == [i \in 1..Len(q) |-> q[Len(q) + 1 - i]]

\* The head and the tail sentinels, top layer first.
HeadColumn == DownChain(top_l, Len(nodes))
TailColumn == DownChain(top_tail, Len(nodes))

\* Layers are numbered from the bottom, 0 .. numLayers-1.
LayerIds == 0..(Len(HeadColumn) - 1)
LayerHead(i) == HeadColumn[Len(HeadColumn) - i]
LayerTail(i) == TailColumn[Len(TailColumn) - i]

\* Layer i from its head along next links, and from its tail along prev links.
Layer(i) == NextChain(LayerHead(i), Len(nodes))
LayerBack(i) == PrevChain(LayerTail(i), Len(nodes))

\* The nodes of layer i between the two sentinels, and their keys.
Inner(i) == LET L == Layer(i) IN {L[j] : j \in 2..(Len(L) - 1)}
LayerKeys(i) == {nodes[n].key : n \in Inner(i)}
InnerKeySeq(i) == LET L == Layer(i) IN [j \in 1..(Len(L) - 2) |-> nodes[L[j + 1]].key]

\* C15: in every reachable state the topmost layer holds no key: the next
\* link of the top head sentinel is the top tail sentinel (and back).
C15_TopLayerEmpty ==
    /\ nodes[top_l].sentinel /\ nodes[top_tail].sentinel
    /\ nodes[top_l].next = top_tail
    /\ nodes[top_tail].prev = top_l
    /\ nodes[top_l].up = NULL /\ nodes[top_tail].up = NULL

\* An insert was stopped by the height cap and the top layer is still empty.
C15_Witness ==
    /\ call.op = "insert" /\ call.out = "true"
    /\ MAGIC_VAL \in Present
    /\ numLayers = FlatCap
    /\ height(MAGIC_VAL) = Value(FlatCap - 1)
    /\ nodes[top_l].next = top_tail

\* C16: every layer, followed by next links from its head sentinel, reaches
\* its tail sentinel through non-sentinel nodes with strictly increasing keys;
\* followed by prev links from the tail it visits the same nodes in reverse;
\* each layer has exactly one head and one tail sentinel.
C16_LayersAreSortedLists ==
    /\ Len(HeadColumn) = numLayers /\ Len(TailColumn) = numLayers
    /\ LayerHead(0) = bottom_l /\ LayerTail(0) = bottom_tail
    /\ \A i \in LayerIds :
         /\ LET L == Layer(i) IN Len(L) >= 2 /\ L[Len(L)] = LayerTail(i)
         /\ nodes[LayerHead(i)].sentinel /\ nodes[LayerTail(i)].sentinel
         /\ nodes[LayerHead(i)].prev = NULL /\ nodes[LayerTail(i)].next = NULL
         /\ \A n \in Inner(i) : ~nodes[n].sentinel
         /\ StrictlyIncreasing(InnerKeySeq(i))
         /\ LayerBack(i) = Reverse(Layer(i))
    /\ \A i, j \in LayerIds : i # j => Range(Layer(i)) \cap Range(Layer(j)) = {}
    /\ UNION {Range(Layer(i)) : i \in LayerIds} = DOMAIN nodes
    /\ Cardinality({n \in DOMAIN nodes : nodes[n].sentinel}) = 2 * numLayers

\* A layer above the bottom holds two keys, a later key spliced in before an
\* earlier one.
C16_Witness ==
    /\ call.op = "insert" /\ call.out = "true"
    /\ \E i \in LayerIds : i > 0 /\ Cardinality(Inner(i)) >= 2
                            /\ nodes[Layer(i)[2]].key = call.key

\* C17: every non-sentinel node on a layer i > 0 has a down link to a
\* non-sentinel node of the same key on layer i-1, whose up link points back;
\* down links from any node reach the bottom node of the same key without
\* skipping a layer; each layer's keys are a subset of those of the layer below.
C17_Columns ==
    /\ \A i \in LayerIds : \A n \in Inner(i) :
         /\ i = 0 => nodes[n].down = NULL
         /\ i > 0 => /\ nodes[n].down \in Inner(i - 1)
                     /\ ~nodes[nodes[n].down].sentinel
                     /\ nodes[nodes[n].down].key = nodes[n].key
                     /\ nodes[nodes[n].down].up = n
         /\ DownLength(n) = i + 1
         /\ bottomMost(nodes, n) \in Inner(0)
         /\ nodes[bottomMost(nodes, n)].key = nodes[n].key
         /\ nodes[n].up # NULL =>
              /\ i + 1 \in LayerIds /\ nodes[n].up \in Inner(i + 1)
              /\ nodes[nodes[n].up].down = n
    /\ \A i \in LayerIds : i > 0 => LayerKeys(i) \subseteq LayerKeys(i - 1)

\* A key has a column of at least three nodes.
C17_Witness ==
    \E i \in LayerIds : i >= 2 /\ \E n \in Inner(i) : DownLength(n) = i + 1

\* The bottom-layer nodes with a key smaller than k.
SmallerBottom(k) == {n \in Inner(0) : nodes[n].key < k}

\* C18: on every reachable list, the empty one included, search(k) returns
\* true and the bottom-layer node holding k when k is present; otherwise false
\* and the bottom-layer node with the largest key smaller than k, or the
\* bottom-layer head sentinel when no present key is smaller.
C18_SearchPosition ==
    \A k \in Keys :
        IF k \in Present
        THEN /\ search(k).found
             /\ search(k).n \in Inner(0)
             /\ nodes[search(k).n].key = k
        ELSE /\ ~search(k).found
             /\ IF SmallerBottom(k) = {}
                THEN search(k).n = bottom_l
                ELSE /\ search(k).n \in SmallerBottom(k)
                     /\ \A m \in SmallerBottom(k) :
                            nodes[m].key <= nodes[search(k).n].key

\* The nodes that hold key k.
Column(k) == {n \in DOMAIN nodes : ~nodes[n].sentinel /\ nodes[n].key = k}

\* C19: for every present key k, height(k) is the number of nodes in k's
\* column, which lies on the layers 0 .. height(k)-1, and the value height(k)
\* returns never changes once k is inserted.
C19_HeightIsColumn ==
    /\ [](\A k \in Present :
            /\ height(k).out = "value"
            /\ height(k).val = Cardinality(Column(k)))
    /\ [](\A i \in LayerIds :
            LET K == LayerKeys(i)
            IN  \A k \in Present : (k \in K) <=> (i < height(k).val))
    /\ [][grid' # grid =>
            \A k \in SpliceKeys : k \in Present => height(k)' = height(k)]_vars

\* A key of height at least 2 is present while another key is inserted that
\* grows the list.
C19_Witness ==
    /\ call.op = "insert" /\ call.out = "true"
    /\ \E k \in Present \ {call.key} :
          /\ height(k).val >= 2
          /\ height(call.key).val > height(k).val

\* C20: the cap is tested against the list-wide layer count.  When
\* numLayers() >= cap(n) as insert(k, v) starts on a list of size n, the new
\* key gets height 1 and no layer is added; otherwise its height is
\* min(1 + H, cap(n) - 1), H the number of consecutive heads from index 0.
\* From a fresh list, 255 then 1 gives height(1) = 1, and 1 then 255 gives
\* height(1) = 2.
C20_CapOnLayerCount ==
    [][\A k \in SpliceKeys :
         (call'.op = "insert" /\ call'.key = k /\ call'.out = "true") =>
           /\ numLayers >= Cap(size) =>
                height(k)' = Value(1) /\ numLayers' = numLayers
           /\ numLayers < Cap(size) =>
                height(k)' = Value(IF Heads(k, 0) = 8 \/ 1 + Heads(k, 0) > Cap(size) - 1
                                   THEN Cap(size) - 1 ELSE 1 + Heads(k, 0))
           /\ (k = 1 /\ Present = {MAGIC_VAL}) => height(1)' = Value(1)
           /\ (k = MAGIC_VAL /\ Present = {1}) => height(1)' = Value(2)]_vars

\* 255 was inserted first and 1 after it: 1 has heads at index 0 and height 1.
C20_Witness ==
    /\ call.op = "insert" /\ call.key = 1 /\ call.out = "true"
    /\ Present = {1, MAGIC_VAL}
    /\ flipCoin(1, 0)
    /\ height(1) = Value(1)
    /\ numLayers = FlatCap

\* C13: every call of insert terminates from every reachable state, also for
\* a key whose every flip is heads (255): the search phase is left after
\* finitely many steps, the promotion loop ends, and the call returns.
C13_InsertTerminates ==
    /\ (run.pc = "search") ~> (run.pc \in {"splice", "idle"})
    /\ (run.pc = "promote") ~> (run.pc = "idle")
    /\ (run.pc \in {"search", "splice", "promote"})
         ~> (run.pc = "idle" /\ call.op = "insert")

\* insert(255) has returned true on a list that held other keys: it went
\* through the search and through the promotion loop up to the cap.
C13_Witness ==
    /\ run.pc = "idle"
    /\ call.op = "insert" /\ call.key = MAGIC_VAL /\ call.out = "true"
    /\ sl_size >= 2
    /\ numLayers = FlatCap

\* C14: destroying a list reached by any sequence of inserts deletes every
\* node ever allocated exactly once, never reads a member of a deleted node,
\* and terminates.
C14_DestructorReleasesAll ==
    /\ [](run.pc \in {"columns", "row", "pairs", "destroyed", "crashed"} =>
            /\ ~run.uaf
            /\ run.pc # "crashed"
            /\ \A n \in DOMAIN nodes : run.freed[n] <= 1)
    /\ [](run.pc = "destroyed" => \A n \in DOMAIN nodes : run.freed[n] = 1)
    /\ (run.pc \in {"columns", "row", "pairs"}) ~> (run.pc = "destroyed")

\* A list with keys on several layers has been destroyed.
C14_Witness ==
    /\ run.pc = "destroyed"
    /\ sl_size >= 2
    /\ sl_layers >= 4
    /\ \A n \in DOMAIN nodes : run.freed[n] = 1

\* C21: exactly one empty lane is kept.  With at least one key, numLayers()
\* is 1 plus the largest height of a present key, so the layer just below the
\* top holds a key; with no key numLayers() is 2.
C21_OneEmptyLane ==
    /\ Present = {} => numLayers = 2 /\ size = 0
    /\ Present # {} =>
         /\ \E k \in Present : numLayers = 1 + height(k).val
         /\ \A k \in Present : numLayers >= 1 + height(k).val
         /\ numLayers - 2 \in LayerIds
         /\ LayerKeys(numLayers - 2) # {}
         /\ LayerKeys(numLayers - 1) = {}

\* The key inserted last is lower than the tallest key, which still reaches
\* the layer just below the top.
C21_Witness ==
    /\ call.op = "insert" /\ call.out = "true"
    /\ numLayers >= 4
    /\ height(call.key).val + 1 < numLayers
    /\ \E k \in Present \ {call.key} : numLayers = 1 + height(k).val

====
